---- MODULE Spec2Model ----
(***************************************************************************)
(* Model of analyze_github_issue.py: the load of a saved GitHub issue page *)
(* into a GitHubIssueData aggregate (GitHubIssueData.__init__ and          *)
(* _populate_user_data) and the read-only reports computed from it.        *)
(*                                                                         *)
(* Conventions.  A Python dict is a sequence of entries in insertion       *)
(* order with distinct keys.  Sentiment scores are tenths (0.5 is 5).      *)
(* Strings are compared through StrOrder, which lists the strings the      *)
(* model uses in Python's str order.  An <a class="user-mention"> element  *)
(* is modelled by its text after the first character.  A tabulate() table   *)
(* is modelled by the sequence of its rows.  The title, the participation  *)
(* summary, the truncation of the request text, serialization, the plot    *)
(* and the written files are outside the model.                            *)
(***************************************************************************)
EXTENDS Integers, Sequences, FiniteSets, TLC

\* ------------------------------------------------------------------ bounds
MaxContainers == 3
MaxMentionMarks == 4
MaxKeyPhraseCount == 2

\* ------------------------------------------------------- program constants
DefaultSentiment == 5

\* ------------------------------------------------------------ input domain
NoAuthor == "<no a.author>"
NoBody == "<no textarea issue[body]>"
NoDigits == <<>>

MentionedNames == {"bob", "carol"}
Scores == {2, 8}
KeyPhraseLists == {<<>>, <<"beta", "alice", "beta">>, <<"gamma", "carol", "beta">>}
ExcludedLists == {<<>>, <<"beta">>}

\* Python's str order over the strings of the model (code point order).
StrOrder ==
    <<"CONFUSED", "EYES", "HEART", "HOORAY", "LAUGH", "ROCKET", "THUMBS_DOWN",
      "THUMBS_UP", "alice", "beta", "bob", "carol", "gamma">>

StrRank(s) == CHOOSE k \in DOMAIN StrOrder : StrOrder[k] = s

StrLess(a, b) == StrRank(a) < StrRank(b)

\* A <button> of a reactions container: the first token of its value attribute
\* and the digit characters of its text (none when the text has no digit).
Button(type, digits) == [value |-> type, digits |-> digits]

\* A <div class="has-reactions"> with its buttons, or its absence.
Reactions(buttons) == [present |-> TRUE, buttons |-> buttons]

NoReactions == [present |-> FALSE, buttons |-> <<>>]

\* The comment containers a snapshot is assembled from.
ContainerPool ==
    { [author |-> "alice", body |-> "t1", author_badge |-> TRUE, member_badge |-> FALSE,
       reactions |-> Reactions(<<Button("THUMBS_UP", <<2>>), Button("HEART", <<1>>)>>)],
      [author |-> "alice", body |-> "t2", author_badge |-> FALSE, member_badge |-> TRUE,
       reactions |-> Reactions(<<Button("THUMBS_UP", <<1>>), Button("LAUGH", NoDigits),
                                 Button("HEART", <<2>>)>>)],
      [author |-> "bob", body |-> "t3", author_badge |-> FALSE, member_badge |-> TRUE,
       reactions |-> NoReactions],
      [author |-> "bob", body |-> "t4", author_badge |-> FALSE, member_badge |-> FALSE,
       reactions |-> Reactions(<<Button("HEART", <<1, 0>>)>>)],
      [author |-> "bob", body |-> NoBody, author_badge |-> FALSE, member_badge |-> FALSE,
       reactions |-> NoReactions],
      [author |-> NoAuthor, body |-> "t6", author_badge |-> FALSE, member_badge |-> FALSE,
       reactions |-> NoReactions] }

SeqsUpTo(S, n) == UNION { [1..k -> S] : k \in 0..n }

VARIABLES
    soup,            \* self._soup: [containers, mentions] of the parsed snapshot
    analytics,       \* self._analytics_config_filename is supplied
    pc,              \* position of the load: start, comments, mentions, loaded, failed
    original_post,   \* self._original_post
    comments,        \* self._comments
    comment_count,   \* self.comment_count
    next_comment,    \* index in comments of the next iteration of the for loop
    users,           \* the users dict of _populate_user_data, then self.users
    sentiments,      \* self.sentiments
    calls,           \* the sleeps and outbound requests made so far, in order
    returned         \* the value returned by the last report method called

vars ==
    <<soup, analytics, pc, original_post, comments, comment_count, next_comment,
      users, sentiments, calls, returned>>

\* ------------------------------------------------------------ data classes
\* GitHubCommentData.__init__
GitHubCommentData(comment_text, comment_reactions, sentiment_score, key_phrases) ==
    [comment_text |-> comment_text, comment_reactions |-> comment_reactions,
     sentiment_score |-> sentiment_score, key_phrases |-> key_phrases]

\* GitHubUserData.__init__, together with the key it is stored under in users.
GitHubUserData(name, is_issue_author, is_member) ==
    [name |-> name, is_issue_author |-> is_issue_author, is_member |-> is_member,
     comment_count |-> 0, mention_count |-> 0, comment_details |-> <<>>]

\* dict lookups on users
UserKeys(us) == { us[k].name : k \in DOMAIN us }

UserIndex(us, name) == CHOOSE k \in DOMAIN us : us[k].name = name

\* ------------------------------------------------------------------- load
\* The state before GitHubIssueData(file_name, analytics_config_filename) runs:
\* the snapshot and whether a configuration file name is supplied are the inputs.
Snapshots ==
    [containers : SeqsUpTo(ContainerPool, MaxContainers),
     mentions : SeqsUpTo(MentionedNames, MaxMentionMarks)]

\* The snapshots whose opening post (if any) carries the badge of the author of
\* the issue, as the page of an issue viewed by its author does.
OpenedByIssueAuthor ==
    { s \in Snapshots : s.containers # <<>> => s.containers[1].author_badge }

\* Every response of the service multiplies the runs of a snapshot, so the
\* snapshots loaded with analytics are the ones of OpenedByIssueAuthor with at
\* most one mention element.
AnalyticsSnapshots == { s \in OpenedByIssueAuthor : Len(s.mentions) <= 1 }

Init ==
    /\ analytics \in BOOLEAN
    /\ soup \in IF analytics THEN AnalyticsSnapshots ELSE Snapshots
    /\ pc = "start"
    /\ original_post = <<>>
    /\ comments = <<>>
    /\ comment_count = 0
    /\ next_comment = 1
    /\ users = <<>>
    /\ sentiments = <<>>
    /\ calls = <<>>
    /\ returned = [op |-> "none", args |-> [none |-> TRUE], value |-> <<>>]

\* pop(0) left out: the opening post stays in the list.
PopFirstMutant(containers) == containers

\* self._comments.pop(0): the list without its first element.
PopFirst(containers) == Tail(containers)

\* GitHubIssueData.__init__ up to the call of _populate_user_data.
\* pop(0) of an empty list raises IndexError.
Construct ==
    /\ pc = "start"
    /\ IF Len(soup.containers) = 0
       THEN /\ pc' = "failed"
            /\ UNCHANGED <<original_post, comments, comment_count>>
       ELSE /\ original_post' = <<Head(soup.containers)>>
            /\ comments' = PopFirst(soup.containers)
            /\ comment_count' = Len(PopFirst(soup.containers))
            /\ pc' = "comments"
    /\ UNCHANGED <<soup, analytics, next_comment, users, sentiments, calls, returned>>

\* "if user not in users: users[user] = GitHubUserData(...)"
AddUserIfAbsent(us, comment) ==
    IF comment.author \in UserKeys(us)
    THEN us
    ELSE Append(us, GitHubUserData(comment.author, comment.author_badge, comment.member_badge))

\* the count assigned instead of incremented
IncrementCommentCountMutant(us, name) ==
    [us EXCEPT ![UserIndex(us, name)].comment_count = 1]

\* "user_data.comment_count += 1"
IncrementCommentCount(us, name) ==
    [us EXCEPT ![UserIndex(us, name)].comment_count = @ + 1]

\* int(reaction_count) of a non-empty digit string
RECURSIVE DigitsToInt(_)
DigitsToInt(digits) ==
    IF digits = <<>> THEN 0
    ELSE 10 * DigitsToInt(SubSeq(digits, 1, Len(digits) - 1)) + digits[Len(digits)]

\* The reactions loop: one (type, count) pair per button whose text has a digit.
RECURSIVE ButtonsToReactions(_)
ButtonsToReactions(buttons) ==
    IF buttons = <<>> THEN <<>>
    ELSE LET button == Head(buttons)
         IN  IF button.digits # NoDigits
             THEN <<<<button.value, DigitsToInt(button.digits)>>>>
                      \o ButtonsToReactions(Tail(buttons))
             ELSE ButtonsToReactions(Tail(buttons))

ParseReactions(comment) ==
    IF comment.reactions.present
    THEN ButtonsToReactions(comment.reactions.buttons)
    ELSE <<>>

\* insert(0, ...) instead of append(...)
AppendCommentDetailsMutant(us, name, details) ==
    [us EXCEPT ![UserIndex(us, name)].comment_details = <<details>> \o @]

\* "user_data.comment_details.append(GitHubCommentData(...))"
AppendCommentDetails(us, name, details) ==
    [us EXCEPT ![UserIndex(us, name)].comment_details = Append(@, details)]

\* "self.sentiments.append(sentiment_score)"
AppendSentiment(scores, sentiment_score) == Append(scores, sentiment_score)

\* a missing textarea tolerated instead of raising
BodyMissingMutant(comment) == FALSE

\* comment.find("textarea", attrs = {"name": "issue[body]"}) is None, on which
\* get_text() raises AttributeError.
BodyMissing(comment) == comment.body = NoBody

\* comment.find("a", class_ = "author") is None, on which get_text() raises.
AuthorMissing(comment) == comment.author = NoAuthor

\* a sleep before each of the two requests
EnrichmentCallsMutant(sentiment_ok) ==
    IF sentiment_ok THEN <<"sleep", "sentiment", "sleep", "key_phrases">>
    ELSE <<"sleep", "sentiment">>

\* The sleep and the requests of one iteration with analytics enabled, up to the
\* request that raises (if any).
EnrichmentCalls(sentiment_ok) ==
    IF sentiment_ok THEN <<"sleep", "sentiment", "key_phrases">>
    ELSE <<"sleep", "sentiment">>

\* The rest of an iteration once the comment text is read: counted is the users
\* dict after the increment, and sentiment_score and key_phrases are the defaults
\* or the values of the service's responses.
FinishComment(counted, comment, sentiment_score, key_phrases) ==
    LET details == GitHubCommentData(comment.body, ParseReactions(comment),
                                     sentiment_score, key_phrases)
    IN  /\ users' = AppendCommentDetails(counted, comment.author, details)
        /\ sentiments' = AppendSentiment(sentiments, sentiment_score)
        /\ next_comment' = next_comment + 1
        /\ pc' = "comments"

\* One iteration of "for comment in self._comments".  A find() that matches
\* nothing returns None and the get_text() on it raises; a request the service
\* fails raises too.  An exception leaves __init__ without an object.
ProcessComment ==
    /\ pc = "comments"
    /\ next_comment <= Len(comments)
    /\ LET comment == comments[next_comment] IN
       IF AuthorMissing(comment)
       THEN /\ pc' = "failed"
            /\ UNCHANGED <<users, sentiments, calls, next_comment>>
       ELSE LET counted == IncrementCommentCount(AddUserIfAbsent(users, comment),
                                                 comment.author)
            IN  IF BodyMissing(comment)
                THEN /\ pc' = "failed"
                     /\ users' = counted
                     /\ UNCHANGED <<sentiments, calls, next_comment>>
                ELSE IF ~analytics
                THEN /\ FinishComment(counted, comment, DefaultSentiment, <<>>)
                     /\ UNCHANGED calls
                ELSE \/ \E sentiment_ok \in BOOLEAN :
                          \* text_analytics.sentiment or .key_phrases raises
                          /\ calls' = calls \o EnrichmentCalls(sentiment_ok)
                          /\ pc' = "failed"
                          /\ users' = counted
                          /\ UNCHANGED <<sentiments, next_comment>>
                     \/ \E score \in Scores, phrases \in KeyPhraseLists :
                          /\ calls' = calls \o EnrichmentCalls(TRUE)
                          /\ FinishComment(counted, comment, score, phrases)
    /\ UNCHANGED <<soup, analytics, original_post, comments, comment_count, returned>>

\* ---------------------------------------------------------------- Counter
\* A collections.Counter: [key, count] entries in the order of first insertion.
CounterKeys(counter) == { counter[k].key : k \in DOMAIN counter }

CounterGet(counter, key) ==
    IF key \in CounterKeys(counter)
    THEN counter[CHOOSE k \in DOMAIN counter : counter[k].key = key].count
    ELSE 0

\* "counter[key] += n"
CounterAdd(counter, key, n) ==
    IF key \in CounterKeys(counter)
    THEN [k \in DOMAIN counter |->
             IF counter[k].key = key
             THEN [key |-> key, count |-> counter[k].count + n]
             ELSE counter[k]]
    ELSE Append(counter, [key |-> key, count |-> n])

\* Counter(iterable)
RECURSIVE CounterFrom(_, _)
CounterFrom(counter, items) ==
    IF items = <<>> THEN counter
    ELSE CounterFrom(CounterAdd(counter, Head(items), 1), Tail(items))

Counter(items) == CounterFrom(<<>>, items)

\* ----------------------------------------------------------- mention pass
\* the raw count kept without halving
HalveCountMutant(doubled_count) == doubled_count

\* "int(doubled_count / 2)"
HalveCount(doubled_count) == doubled_count \div 2

\* "{user: int(doubled_count / 2) for (user, doubled_count) in Counter(...).items()}"
MentionedCounts(mentions) ==
    LET doubled == Counter(mentions)
    IN  [k \in DOMAIN doubled |->
            [key |-> doubled[k].key, count |-> HalveCount(doubled[k].count)]]

\* "users.setdefault(user, GitHubUserData(False, False)).mention_count = mention_count"
SetMentionCount(us, user, mention_count) ==
    LET present == IF user \in UserKeys(us) THEN us
                   ELSE Append(us, GitHubUserData(user, FALSE, FALSE))
    IN  [present EXCEPT ![UserIndex(present, user)].mention_count = mention_count]

\* "for user, mention_count in mentioned_counts.items(): ..."
RECURSIVE SetMentionCounts(_, _)
SetMentionCounts(us, mentioned_counts) ==
    IF mentioned_counts = <<>> THEN us
    ELSE SetMentionCounts(
             SetMentionCount(us, Head(mentioned_counts).key, Head(mentioned_counts).count),
             Tail(mentioned_counts))

\* The code after the for loop of _populate_user_data, and the return into
\* __init__, which stores the dict as self.users and completes the object.
CountMentions ==
    /\ pc = "comments"
    /\ next_comment > Len(comments)
    /\ users' = SetMentionCounts(users, MentionedCounts(soup.mentions))
    /\ pc' = "loaded"
    /\ UNCHANGED <<soup, analytics, original_post, comments, comment_count, next_comment,
                   sentiments, calls, returned>>

\* ------------------------------------------------------- library functions
\* sorted(seq, ...): the stable sort of seq under the strict weak order Before.
\* sorted(..., reverse = True) keeps the original order of equal elements too.
SortedBy(seq, Before(_, _)) ==
    LET position(i) ==
            1 + Cardinality({ j \in DOMAIN seq :
                                \/ Before(seq[j], seq[i])
                                \/ ~Before(seq[i], seq[j]) /\ j < i })
    IN  [k \in DOMAIN seq |-> seq[CHOOSE i \in DOMAIN seq : position(i) = k]]

\* seq[:n] for n >= 0
Take(seq, n) == SubSeq(seq, 1, IF n < Len(seq) THEN n ELSE Len(seq))

\* [x for list in lists for x in list]
RECURSIVE Flatten(_)
Flatten(lists) ==
    IF lists = <<>> THEN <<>> ELSE Head(lists) \o Flatten(Tail(lists))

\* sum(...)
RECURSIVE Sum(_)
Sum(numbers) ==
    IF numbers = <<>> THEN 0 ELSE Head(numbers) + Sum(Tail(numbers))

\* "total_count += counter": Counter.__iadd__ adds every entry of the other
\* counter, then drops the entries whose count is not positive.
RECURSIVE CounterIAdd(_, _)
CounterIAdd(counter, other) ==
    IF other = <<>>
    THEN SelectSeq(counter, LAMBDA entry : entry.count > 0)
    ELSE CounterIAdd(CounterAdd(counter, Head(other).key, Head(other).count), Tail(other))

\* Counter.most_common(n): the n entries of highest count, highest first, entries
\* of equal count in insertion order (heapq.nlargest, which is
\* sorted(items, key = count, reverse = True)[:n]).
MostCommon(counter, n) ==
    Take(SortedBy(counter, LAMBDA a, b : a.count > b.count), n)

\* ----------------------------------------------------- GitHubUserData methods
\* GitHubUserData.get_key_phrases_counter
get_key_phrases_counter(user_data, excluded_key_phrases) ==
    LET all == [k \in DOMAIN user_data.comment_details |->
                   user_data.comment_details[k].key_phrases]
        result == SelectSeq(all, LAMBDA key_phrases : key_phrases # <<>>)
        excluded == { excluded_key_phrases[k] : k \in DOMAIN excluded_key_phrases }
    IN  Counter(SelectSeq(Flatten(result), LAMBDA key_phrase : key_phrase \notin excluded))

\* Python's order on the (type, count) tuples
ReactionLess(a, b) == StrLess(a[1], b[1]) \/ (a[1] = b[1] /\ a[2] < b[2])

\* the sort before groupby left out
SortReactionsMutant(flat) == flat

\* "sorted([reaction for reaction_list in result for reaction in reaction_list])"
SortReactions(flat) == SortedBy(flat, ReactionLess)

\* "[(k, sum(count for _, count in v)) for k, v in groupby(result, lambda x : x[0])]":
\* one entry per run of consecutive tuples of the same type.
RECURSIVE GroupSums(_, _)
GroupSums(groups, reactions) ==
    IF reactions = <<>> THEN groups
    ELSE LET reaction == Head(reactions)
             last == Len(groups)
         IN  IF last > 0 /\ groups[last][1] = reaction[1]
             THEN GroupSums([groups EXCEPT ![last] = <<@[1], @[2] + reaction[2]>>],
                            Tail(reactions))
             ELSE GroupSums(Append(groups, reaction), Tail(reactions))

\* "sorted(result, key = lambda x : x[1], reverse = True)"
SortByCountDescending(summed) == SortedBy(summed, LAMBDA a, b : a[2] > b[2])

reaction_emojis ==
    [type \in {"THUMBS_UP", "THUMBS_DOWN", "HEART", "LAUGH", "HOORAY", "CONFUSED",
               "ROCKET", "EYES"} |->
        CASE type = "THUMBS_UP" -> ":+1:"
          [] type = "THUMBS_DOWN" -> ":-1:"
          [] type = "HEART" -> ":heart:"
          [] type = "LAUGH" -> ":smile:"
          [] type = "HOORAY" -> ":tada:"
          [] type = "CONFUSED" -> ":confused:"
          [] type = "ROCKET" -> ":rocket:"
          [] type = "EYES" -> ":eyes:"]

\* GitHubUserData.get_reactions_summary
get_reactions_summary(user_data, use_emojis) ==
    LET all == [k \in DOMAIN user_data.comment_details |->
                   user_data.comment_details[k].comment_reactions]
        lists == SelectSeq(all, LAMBDA comment_reactions : comment_reactions # <<>>)
        flat == SortReactions(Flatten(lists))
        summed == GroupSums(<<>>, flat)
        result == SortByCountDescending(summed)
    IN  IF use_emojis
        THEN [k \in DOMAIN result |-> <<reaction_emojis[result[k][1]], result[k][2]>>]
        ELSE result

\* GitHubUserData.get_average_sentiment_score: the mean as <<sum, number>> of the
\* scores, or <<-1, 1>> for a user without comments.
get_average_sentiment_score(user_data) ==
    LET averages == [k \in DOMAIN user_data.comment_details |->
                        user_data.comment_details[k].sentiment_score]
    IN  IF averages # <<>> THEN <<Sum(averages), Len(averages)>> ELSE <<-1, 1>>

\* ---------------------------------------------------- GitHubIssueData methods
\* "excluded_key_phrases + list(self.users.keys()) if exclude_user_names else []":
\* the conditional expression binds looser than +.
ExcludedPhrases(us, exclude_user_names, excluded_key_phrases) ==
    IF exclude_user_names
    THEN excluded_key_phrases \o [k \in DOMAIN us |-> us[k].name]
    ELSE <<>>

\* "for user in self.users.values(): total_count += user.get_key_phrases_counter(...)"
RECURSIVE TotalCount(_, _, _)
TotalCount(total_count, us, excluded_phrases) ==
    IF us = <<>> THEN total_count
    ELSE TotalCount(
             CounterIAdd(total_count, get_key_phrases_counter(Head(us), excluded_phrases)),
             Tail(us), excluded_phrases)

\* GitHubIssueData.get_tabulated_top_key_phrases: the rows of the table.
TopKeyPhrases(us, key_phrase_count, exclude_user_names, excluded_key_phrases) ==
    MostCommon(
        TotalCount(<<>>, us, ExcludedPhrases(us, exclude_user_names, excluded_key_phrases)),
        key_phrase_count)

\* The sort key (comment_count, mention_count, name), compared as Python tuples.
UserKeyLess(a, b) ==
    \/ a.comment_count < b.comment_count
    \/ a.comment_count = b.comment_count /\ a.mention_count < b.mention_count
    \/ /\ a.comment_count = b.comment_count
       /\ a.mention_count = b.mention_count
       /\ StrLess(a.name, b.name)

\* reverse = True left out
SortUsersMutant(us) == SortedBy(us, LAMBDA a, b : UserKeyLess(a, b))

\* "sorted(self.users.items(), key = ..., reverse = True)"
SortUsers(us) == SortedBy(us, LAMBDA a, b : UserKeyLess(b, a))

\* GitHubIssueData.get_tabulated_user_interaction_data: the rows of the table.
UserInteractionData(us, use_emojis) ==
    LET sorted_users == SortUsers(us)
    IN  [k \in DOMAIN sorted_users |->
            LET val == sorted_users[k]
            IN  [author |-> IF val.is_issue_author THEN "#" ELSE "",
                 member |-> IF val.is_member THEN "*" ELSE "",
                 user |-> val.name,
                 comment_count |-> val.comment_count,
                 mention_count |-> val.mention_count,
                 avg_sentiment |-> get_average_sentiment_score(val),
                 reactions |-> get_reactions_summary(val, use_emojis)]]

\* A call of issue.get_tabulated_top_key_phrases(...) on the loaded aggregate.
CallTopKeyPhrases ==
    /\ pc = "loaded"
    /\ \E key_phrase_count \in 1..MaxKeyPhraseCount, exclude_user_names \in BOOLEAN,
          excluded_key_phrases \in ExcludedLists :
         returned' = [op |-> "get_tabulated_top_key_phrases",
                    args |-> [key_phrase_count |-> key_phrase_count,
                              exclude_user_names |-> exclude_user_names,
                              excluded_key_phrases |-> excluded_key_phrases],
                    value |-> TopKeyPhrases(users, key_phrase_count, exclude_user_names,
                                            excluded_key_phrases)]
    /\ UNCHANGED <<soup, analytics, pc, original_post, comments, comment_count,
                   next_comment, users, sentiments, calls>>

\* A call of issue.get_tabulated_user_interaction_data(use_emojis).
CallUserInteractionData ==
    /\ pc = "loaded"
    /\ \E use_emojis \in BOOLEAN :
         returned' = [op |-> "get_tabulated_user_interaction_data",
                    args |-> [use_emojis |-> use_emojis],
                    value |-> UserInteractionData(users, use_emojis)]
    /\ UNCHANGED <<soup, analytics, pc, original_post, comments, comment_count,
                   next_comment, users, sentiments, calls>>

\* A call of issue.users[user].get_reactions_summary(use_emojis).
CallReactionsSummary ==
    /\ pc = "loaded"
    /\ \E k \in DOMAIN users, use_emojis \in BOOLEAN :
         returned' = [op |-> "get_reactions_summary",
                    args |-> [user |-> users[k].name, use_emojis |-> use_emojis],
                    value |-> get_reactions_summary(users[k], use_emojis)]
    /\ UNCHANGED <<soup, analytics, pc, original_post, comments, comment_count,
                   next_comment, users, sentiments, calls>>

\* GitHubIssueData(file_name, analytics_config_filename)
Load == Construct \/ ProcessComment \/ CountMentions

Next ==
    \/ Construct
    \/ ProcessComment
    \/ CountMentions
    \/ CallTopKeyPhrases
    \/ CallUserInteractionData
    \/ CallReactionsSummary

\* Every operation, on every input of Init.
Spec == Init /\ [][Next]_vars

\* The load alone.
SpecLoad == Init /\ [][Load]_vars

\* The load without analytics, as the script runs it
\* (GitHubIssueData("issue.html")), of a snapshot opened by the author of the
\* issue, followed by the participant reports.
InitReport == Init /\ ~analytics /\ soup \in OpenedByIssueAuthor

Report ==
    \/ Construct
    \/ ProcessComment
    \/ CountMentions
    \/ CallUserInteractionData
    \/ CallReactionsSummary

SpecReport == InitReport /\ [][Report]_vars

\* =================================================================== claims
\* What the claims speak of, read off the snapshot and the aggregate.
Containers == soup.containers

\* positions, after the opening post, of the containers written by name
AuthoredBy(name) == { i \in 2..Len(Containers) : Containers[i].author = name }

\* number of user-mention elements whose text names the user
RawMentions(name) == Cardinality({ j \in DOMAIN soup.mentions : soup.mentions[j] = name })

Entry(name) == users[UserIndex(users, name)]

Loaded == pc = "loaded"

\* C1: a loaded snapshot of K >= 1 containers has comment_count K-1; the first
\* container is removed before counting and adds nothing to its author's
\* comment_count or comment_details, nor to sentiments; its author is in users
\* only if they wrote a later comment or are mentioned.
C1_OpeningPostExcluded ==
    /\ pc \in {"comments", "loaded"} =>
          /\ Len(Containers) >= 1
          /\ original_post = <<Containers[1]>>
          /\ comment_count = Len(Containers) - 1
    /\ Loaded =>
          /\ Len(sentiments) = Len(Containers) - 1
          /\ \A k \in DOMAIN users :
                /\ users[k].comment_count = Cardinality(AuthoredBy(users[k].name))
                /\ Len(users[k].comment_details) = Cardinality(AuthoredBy(users[k].name))
          /\ Containers[1].author \in UserKeys(users) =>
                \/ AuthoredBy(Containers[1].author) # {}
                \/ RawMentions(Containers[1].author) >= 1

\* a load of three containers whose opening post's author is no participant
C1_Witness ==
    /\ Loaded
    /\ Len(Containers) = 3
    /\ comment_count = 2
    /\ Containers[1].author = "alice"
    /\ "alice" \notin UserKeys(users)

\* C2: in every loaded aggregate comment_count is the sum of the participants'
\* comment_count, sentiments has comment_count elements, and every participant's
\* comment_count is the length of its comment_details.
C2_CountsAgree ==
    Loaded =>
       /\ comment_count = Sum([k \in DOMAIN users |-> users[k].comment_count])
       /\ Len(sentiments) = comment_count
       /\ \A k \in DOMAIN users :
             users[k].comment_count = Len(users[k].comment_details)

\* two comments of one participant, and a participant who is only mentioned
C2_Witness ==
    /\ Loaded
    /\ comment_count = 2
    /\ \E k \in DOMAIN users : users[k].comment_count = 2
    /\ \E k \in DOMAIN users :
          users[k].comment_count = 0 /\ users[k].comment_details = <<>>

\* C3: the mention pass gives every username with r >= 1 mention elements a
\* participant with mention_count = floor(r / 2); one who wrote no comment is
\* created with both flags false; for a participant that existed the pass
\* changes only mention_count; a participant never mentioned keeps 0.
C3_MentionCounts ==
    [][ (pc = "comments" /\ pc' = "loaded") =>
          /\ \A name \in MentionedNames :
                RawMentions(name) >= 1 =>
                   /\ \E k \in DOMAIN users' : users'[k].name = name
                   /\ \A k \in DOMAIN users' :
                         users'[k].name = name =>
                            users'[k].mention_count = RawMentions(name) \div 2
          /\ Len(users') >= Len(users)
          /\ \A k \in DOMAIN users :
                users'[k] = [users[k] EXCEPT !.mention_count = users'[k].mention_count]
          /\ \A k \in DOMAIN users' :
                k > Len(users) =>
                   /\ AuthoredBy(users'[k].name) = {}
                   /\ RawMentions(users'[k].name) >= 1
                   /\ ~users'[k].is_issue_author
                   /\ ~users'[k].is_member
                   /\ users'[k].comment_count = 0
                   /\ users'[k].comment_details = <<>>
          /\ \A k \in DOMAIN users' :
                RawMentions(users'[k].name) = 0 => users'[k].mention_count = 0
      ]_vars

\* a member who commented and is mentioned three times, beside a user who is
\* only mentioned
C3_Witness ==
    /\ Loaded
    /\ RawMentions("bob") = 3
    /\ "bob" \in UserKeys(users)
    /\ Entry("bob").is_member
    /\ Entry("bob").comment_count >= 1
    /\ Entry("bob").mention_count = 1
    /\ \E k \in DOMAIN users :
          users[k].comment_count = 0 /\ ~users[k].is_member /\ ~users[k].is_issue_author

\* C4: in every loaded aggregate a participant without comments has
\* mention_count > 0.
C4_MentionOnlyHasMentions ==
    Loaded =>
       \A k \in DOMAIN users :
          users[k].comment_details = <<>> => users[k].mention_count > 0

\* C5, as claimed: when any container, the first included, lacks the issue[body]
\* textarea, no aggregate is produced.
C5_AnyContainerWithoutBodyFails ==
    (\E i \in 1..Len(Containers) : Containers[i].body = NoBody) => ~Loaded

\* C5, amended: when a container after the first lacks the issue[body] textarea
\* the loop never gets past that container and no aggregate is produced; the
\* first container's textarea is never looked for.
C5_CommentWithoutBodyFails ==
    \A i \in 2..Len(Containers) :
       Containers[i].body = NoBody =>
          /\ ~Loaded
          /\ next_comment <= i - 1
          /\ Len(sentiments) < i - 1

\* the load has failed at a comment that has an author and no textarea
C5_Witness ==
    /\ pc = "failed"
    /\ next_comment <= Len(comments)
    /\ comments[next_comment].author # NoAuthor
    /\ comments[next_comment].body = NoBody
    /\ next_comment = 2

\* every key phrase of every comment of every participant, in dict order
AllKeyPhrases ==
    Flatten([k \in DOMAIN users |->
                Flatten([j \in DOMAIN users[k].comment_details |->
                            users[k].comment_details[j].key_phrases])])

Occurrences(items, item) == Cardinality({ j \in DOMAIN items : items[j] = item })

ToSet(seq) == { seq[j] : j \in DOMAIN seq }

\* C6: the top key phrases table never lists a phrase of excluded_key_phrases,
\* whatever exclude_user_names is, nor a key of users when exclude_user_names is
\* true; every other phrase is counted with its occurrences over all comments,
\* and the table holds the at most key_phrase_count phrases of highest frequency
\* in descending frequency order.
C6_TopKeyPhrasesExclusion ==
    returned.op = "get_tabulated_top_key_phrases" =>
       LET rows == returned.value
           args == returned.args
           banned == ToSet(args.excluded_key_phrases)
                        \cup (IF args.exclude_user_names THEN UserKeys(users) ELSE {})
           listed == { rows[j].key : j \in DOMAIN rows }
           others == (ToSet(AllKeyPhrases) \ banned) \ listed
       IN  /\ listed \cap banned = {}
           /\ \A j \in DOMAIN rows : rows[j].count = Occurrences(AllKeyPhrases, rows[j].key)
           /\ Len(rows) <= args.key_phrase_count
           /\ Len(rows) < args.key_phrase_count => others = {}
           /\ \A j \in 1..(Len(rows) - 1) : rows[j].count >= rows[j + 1].count
           /\ \A j \in DOMAIN rows : \A phrase \in others :
                 rows[j].count >= Occurrences(AllKeyPhrases, phrase)

\* C7: the participant table has exactly one row per entry of users, in strictly
\* descending lexicographic order of (comment_count, mention_count, username).
C7_UserRowsDescending ==
    returned.op = "get_tabulated_user_interaction_data" =>
       LET rows == returned.value
       IN  /\ Len(rows) = Len(users)
           /\ \A k \in DOMAIN users :
                 \E j \in DOMAIN rows :
                    /\ rows[j].user = users[k].name
                    /\ rows[j].comment_count = users[k].comment_count
                    /\ rows[j].mention_count = users[k].mention_count
           /\ \A j \in 1..(Len(rows) - 1) :
                 \/ rows[j].comment_count > rows[j + 1].comment_count
                 \/ /\ rows[j].comment_count = rows[j + 1].comment_count
                    /\ rows[j].mention_count > rows[j + 1].mention_count
                 \/ /\ rows[j].comment_count = rows[j + 1].comment_count
                    /\ rows[j].mention_count = rows[j + 1].mention_count
                    /\ StrRank(rows[j].user) > StrRank(rows[j + 1].user)

\* a table of three rows where two users tie on both counts and the greater
\* name comes first
C7_Witness ==
    /\ returned.op = "get_tabulated_user_interaction_data"
    /\ Len(returned.value) = 3
    /\ returned.value[1].user = "bob"
    /\ returned.value[2].user = "alice"
    /\ returned.value[1].comment_count = returned.value[2].comment_count
    /\ returned.value[1].mention_count = returned.value[2].mention_count
    /\ returned.value[3].mention_count > 0

\* all (type, count) pairs of all comments of a participant
AllReactions(user_data) ==
    Flatten([k \in DOMAIN user_data.comment_details |->
                user_data.comment_details[k].comment_reactions])

ReactionTotal(reactions, type) ==
    LET of_type == SelectSeq(reactions, LAMBDA reaction : reaction[1] = type)
    IN  Sum([j \in DOMAIN of_type |-> of_type[j][2]])

\* C8: get_reactions_summary(use_emojis = false) returns exactly one pair per
\* reaction type of the participant's comments, with the sum of that type's
\* counts over all the comments, in order of non-increasing total; the empty
\* sequence for a participant without reactions.
C8_ReactionsSummary ==
    (returned.op = "get_reactions_summary" /\ ~returned.args.use_emojis) =>
       LET summary == returned.value
           reactions == AllReactions(Entry(returned.args.user))
           types == { reactions[j][1] : j \in DOMAIN reactions }
       IN  /\ { summary[j][1] : j \in DOMAIN summary } = types
           /\ Len(summary) = Cardinality(types)
           /\ \A j \in DOMAIN summary :
                 summary[j][2] = ReactionTotal(reactions, summary[j][1])
           /\ \A j \in 1..(Len(summary) - 1) : summary[j][2] >= summary[j + 1][2]
           /\ reactions = <<>> => summary = <<>>

\* the summary of a participant whose two comments both carry both types
C8_Witness ==
    /\ returned.op = "get_reactions_summary"
    /\ ~returned.args.use_emojis
    /\ Len(Entry(returned.args.user).comment_details) = 2
    /\ Len(AllReactions(Entry(returned.args.user))) = 4
    /\ returned.value = <<<<"HEART", 3>>, <<"THUMBS_UP", 3>>>>

\* the comments processed so far, in document order
Processed == SubSeq(comments, 1, next_comment - 1)

TextsOf(name) ==
    LET own == SelectSeq(Processed, LAMBDA comment : comment.author = name)
    IN  [j \in DOMAIN own |-> own[j].body]

\* C9: comments are processed in document order: sentiments[i] is the score of
\* the i-th container after the opening post, each participant's comment_details
\* is the subsequence of the comments they wrote, in the same order, and the
\* mention pass starts only after the last comment is processed.
C9_DocumentOrder ==
    pc \in {"comments", "loaded"} =>
       /\ comments = Tail(Containers)
       /\ Len(sentiments) = next_comment - 1
       /\ \A k \in DOMAIN users :
             [j \in DOMAIN users[k].comment_details |->
                 users[k].comment_details[j].comment_text] = TextsOf(users[k].name)
       /\ \A i \in 1..(next_comment - 1) :
             LET earlier == { j \in 1..i : comments[j].author = comments[i].author }
             IN  /\ comments[i].author \in UserKeys(users)
                 /\ sentiments[i] =
                       Entry(comments[i].author).comment_details[Cardinality(earlier)]
                          .sentiment_score
       /\ pc = "comments" =>
             \A k \in DOMAIN users :
                users[k].mention_count = 0 /\ users[k].comment_count >= 1
       /\ Loaded => next_comment = Len(comments) + 1

\* two comments of one participant with different scores, and a mention
C9_Witness ==
    /\ Loaded
    /\ analytics
    /\ Len(comments) = 2
    /\ comments[1].author = comments[2].author
    /\ comments[1].body # comments[2].body
    /\ sentiments = <<8, 2>>
    /\ soup.mentions # <<>>

\* C10, as claimed: every outbound request is preceded by its own pause.
C10_PauseBeforeEveryRequest ==
    \A j \in DOMAIN calls :
       calls[j] \in {"sentiment", "key_phrases"} => (j > 1 /\ calls[j - 1] = "sleep")

\* C10, amended: with analytics, each comment whose processing completes has
\* caused one pause, then the sentiment request, then the key phrase request,
\* with no pause between the two requests; a request that fails ends the load,
\* and when it is the sentiment request the key phrase request is not made.
\* Without analytics there is never a pause or a request.
C10_OnePausePerComment ==
    /\ ~analytics => calls = <<>>
    /\ \A j \in DOMAIN calls :
          calls[j] = CASE j % 3 = 1 -> "sleep"
                       [] j % 3 = 2 -> "sentiment"
                       [] j % 3 = 0 -> "key_phrases"
    /\ (analytics /\ pc \in {"comments", "loaded"}) => Len(calls) = 3 * (next_comment - 1)
    /\ (analytics /\ Loaded) => Len(calls) = 3 * comment_count
    /\ (analytics /\ pc = "failed") =>
          Len(calls) \in { 3 * (next_comment - 1) + n : n \in {0, 2, 3} }

\* a load with analytics of two comments
C10_Witness ==
    /\ Loaded
    /\ analytics
    /\ comment_count = 2
    /\ calls = <<"sleep", "sentiment", "key_phrases", "sleep", "sentiment", "key_phrases">>

====
